---- MODULE Spec2Model ----
(***************************************************************************)
(* Model of contracts/manage_hub/src/membership_token.rs: the membership   *)
(* token record store, its versioned metadata, the (key, value) -> ids     *)
(* metadata index and the metadata history log.                            *)
(*                                                                         *)
(* Every public function of MembershipTokenContract is one action.  A call *)
(* carries the set `auth` of addresses that authorized it; require_auth(a) *)
(* passes iff a \in auth and otherwise aborts the call ("Unauthorized").   *)
(* Storage writes are applied in the order the code issues them: a call    *)
(* that returns an error keeps the writes it made before the error.        *)
(***************************************************************************)
EXTENDS Integers, Sequences, FiniteSets, TLC

\* ------------------------------------------------------------------------
\* Bounds of the model
\* ------------------------------------------------------------------------
MaxTime == 2          \* the ledger closes MaxTime times: timestamps 0..MaxTime
MaxVersion == 2       \* metadata mutations per token are cut off here

Addresses == {"alice", "bob"}
NoAdmin == "none"

\* Attribute keys in the iteration order of a soroban Map (sorted by key).
KeyOrder == <<"level", "rank", "tier">>
Keys == {KeyOrder[i] : i \in DOMAIN KeyOrder}
\* "tooLong" stands for a Text value above the validator's length limit.
GoodValues == {"gold", "silver"}
Values == GoodValues \cup {"tooLong"}
\* "descTooLong" stands for a description above the validator's limit.
GoodDescriptions == {"desc"}
Descriptions == GoodDescriptions \cup {"descTooLong"}

Range(s) == {s[i] : i \in DOMAIN s}

VARIABLES
    admin,      \* DataKey::Admin (instance storage), NoAdmin when unset
    tokens,     \* DataKey::Token(id) -> MembershipToken
    metadata,   \* DataKey::Metadata(id) -> TokenMetadata
    history,    \* DataKey::MetadataHistory(id) -> Vec<MetadataUpdate>
    index,      \* DataKey::MetadataIndex(key, value) -> Vec<token id>
    now,        \* env.ledger().timestamp()
    sequence,   \* env.ledger().sequence()
    last        \* the last call: the operation and its result

vars == <<admin, tokens, metadata, history, index, now, sequence, last>>
storage == <<admin, tokens, metadata, history, index>>
ledger == <<now, sequence>>

\* ------------------------------------------------------------------------
\* Validation rules of common_types
\* ------------------------------------------------------------------------
MaxAttributes == 2

validate_attribute(key, value) == value \in GoodValues

validate_metadata(m) ==
    /\ m.description \in GoodDescriptions
    /\ Cardinality(DOMAIN m.attributes) <= MaxAttributes
    /\ \A k \in DOMAIN m.attributes : validate_attribute(k, m.attributes[k])

\* ------------------------------------------------------------------------
\* Call results
\* ------------------------------------------------------------------------
\* ret is <<v>> when the call returned the value v, and <<>> otherwise.
Call(op, result, ret) == [op |-> op, result |-> result, ret |-> ret]

\* No call is under way: the caller of the last one has seen its result.
Idle == Call("none", "Ok", <<>>)

Init ==
    /\ admin = NoAdmin
    /\ tokens = <<>>
    /\ metadata = <<>>
    /\ history = <<>>
    /\ index = <<>>
    /\ now = 0
    /\ sequence = 0
    /\ last = Idle

\* ------------------------------------------------------------------------
\* Record store
\* ------------------------------------------------------------------------
MembershipToken(id, user, status, issue_date, expiry_date) ==
    [id |-> id, user |-> user, status |-> status,
     issue_date |-> issue_date, expiry_date |-> expiry_date]

\* Mutant: the duplicate-id check is missing.
issue_token_result_no_duplicate_check(id, expiry_date, auth) ==
    IF admin = NoAdmin THEN "AdminNotSet"
    ELSE IF admin \notin auth THEN "Unauthorized"
    ELSE IF expiry_date <= now THEN "InvalidExpiryDate"
    ELSE "Ok"

\* Mutant: an expiry date equal to the current time is accepted.
issue_token_result_expiry_now(id, expiry_date, auth) ==
    IF admin = NoAdmin THEN "AdminNotSet"
    ELSE IF admin \notin auth THEN "Unauthorized"
    ELSE IF id \in DOMAIN tokens THEN "TokenAlreadyIssued"
    ELSE IF expiry_date < now THEN "InvalidExpiryDate"
    ELSE "Ok"

\* The error issue_token returns, "Ok" when it goes through.
issue_token_result(id, expiry_date, auth) ==
    IF admin = NoAdmin THEN "AdminNotSet"
    ELSE IF admin \notin auth THEN "Unauthorized"
    ELSE IF id \in DOMAIN tokens THEN "TokenAlreadyIssued"
    ELSE IF expiry_date <= now THEN "InvalidExpiryDate"
    ELSE "Ok"

issue_token(id, user, expiry_date, auth) ==
    LET result == issue_token_result(id, expiry_date, auth) IN
    /\ tokens' = IF result = "Ok"
                 THEN (id :> MembershipToken(id, user, "Active", now, expiry_date)) @@ tokens
                 ELSE tokens
    /\ last' = Call("issue_token", result, <<>>)
    /\ UNCHANGED <<admin, metadata, history, index, ledger>>

\* Mutant: the owner's authorization is not required.
transfer_token_result_no_auth(id, auth) ==
    IF id \notin DOMAIN tokens THEN "TokenNotFound"
    ELSE IF tokens[id].status # "Active" THEN "TokenExpired"
    ELSE "Ok"

\* Mutant: the transfer recomputes expiry from the ledger time.
transfer_token_result_checks_expiry(id, auth) ==
    IF id \notin DOMAIN tokens THEN "TokenNotFound"
    ELSE IF tokens[id].status # "Active" \/ now > tokens[id].expiry_date THEN "TokenExpired"
    ELSE IF tokens[id].user \notin auth THEN "Unauthorized"
    ELSE "Ok"

transfer_token_result(id, auth) ==
    IF id \notin DOMAIN tokens THEN "TokenNotFound"
    ELSE IF tokens[id].status # "Active" THEN "TokenExpired"
    ELSE IF tokens[id].user \notin auth THEN "Unauthorized"
    ELSE "Ok"

\* Mutant: a transfer stamps the token with the time of the transfer.
transfer_token_restamp(id, new_user, auth) ==
    LET result == transfer_token_result(id, auth) IN
    /\ tokens' = IF result = "Ok"
                 THEN [tokens EXCEPT ![id].user = new_user, ![id].issue_date = now]
                 ELSE tokens
    /\ last' = Call("transfer_token", result, <<>>)
    /\ UNCHANGED <<admin, metadata, history, index, ledger>>

transfer_token(id, new_user, auth) ==
    LET result == transfer_token_result(id, auth) IN
    /\ tokens' = IF result = "Ok"
                 THEN [tokens EXCEPT ![id].user = new_user]
                 ELSE tokens
    /\ last' = Call("transfer_token", result, <<>>)
    /\ UNCHANGED <<admin, metadata, history, index, ledger>>

\* Mutant: the token counts as expired at its expiry date already.
get_token_result_expired_early(id) ==
    IF id \notin DOMAIN tokens THEN "TokenNotFound"
    ELSE IF tokens[id].status = "Active" /\ now >= tokens[id].expiry_date THEN "TokenExpired"
    ELSE "Ok"

get_token_result(id) ==
    IF id \notin DOMAIN tokens THEN "TokenNotFound"
    ELSE IF tokens[id].status = "Active" /\ now > tokens[id].expiry_date THEN "TokenExpired"
    ELSE "Ok"

get_token(id) ==
    LET result == get_token_result(id) IN
    /\ last' = Call("get_token", result, IF result = "Ok" THEN <<tokens[id]>> ELSE <<>>)
    /\ UNCHANGED <<storage, ledger>>

\* Mutant: the admin slot is written once and never overwritten.
set_admin_write_once(new_admin, auth) ==
    LET result == IF new_admin \in auth THEN "Ok" ELSE "Unauthorized" IN
    /\ admin' = IF result = "Ok" /\ admin = NoAdmin THEN new_admin ELSE admin
    /\ last' = Call("set_admin", result, <<>>)
    /\ UNCHANGED <<tokens, metadata, history, index, ledger>>

set_admin(new_admin, auth) ==
    LET result == IF new_admin \in auth THEN "Ok" ELSE "Unauthorized" IN
    /\ admin' = IF result = "Ok" THEN new_admin ELSE admin
    /\ last' = Call("set_admin", result, <<>>)
    /\ UNCHANGED <<tokens, metadata, history, index, ledger>>

\* ------------------------------------------------------------------------
\* Metadata index helpers
\* ------------------------------------------------------------------------
\* The bucket stored under (key, value), an empty Vec when there is none.
Bucket(idx, key, value) ==
    IF <<key, value>> \in DOMAIN idx THEN idx[<<key, value>>] ELSE <<>>

\* Mutant: the id is pushed without looking for it in the bucket.
add_to_metadata_index_push(idx, attribute_key, attribute_value, token_id) ==
    (<<attribute_key, attribute_value>> :>
         Append(Bucket(idx, attribute_key, attribute_value), token_id)) @@ idx

add_to_metadata_index(idx, attribute_key, attribute_value, token_id) ==
    LET index_key == <<attribute_key, attribute_value>>
        token_ids == Bucket(idx, attribute_key, attribute_value)
    IN  IF token_id \in Range(token_ids)
        THEN idx
        ELSE (index_key :> Append(token_ids, token_id)) @@ idx

remove_from_metadata_index(idx, attribute_key, attribute_value, token_id) ==
    LET index_key == <<attribute_key, attribute_value>> IN
    IF index_key \notin DOMAIN idx
    THEN idx
    ELSE LET new_ids == SelectSeq(idx[index_key], LAMBDA id : id # token_id) IN
         IF new_ids = <<>>
         THEN [p \in DOMAIN idx \ {index_key} |-> idx[p]]
         ELSE [idx EXCEPT ![index_key] = new_ids]

query_tokens_by_attribute_ret(attribute_key, attribute_value) ==
    Bucket(index, attribute_key, attribute_value)

\* Mutant: a full replace leaves the old index entries in place.
RemoveAttributeIndexes_none(idx, attrs, token_id, i) == idx

\* for key in attrs.keys(): remove_from_metadata_index(key, attrs[key]),
\* from position i of the key order on.
RECURSIVE RemoveAttributeIndexes(_, _, _, _)
RemoveAttributeIndexes(idx, attrs, token_id, i) ==
    IF i > Len(KeyOrder) THEN idx
    ELSE LET key == KeyOrder[i] IN
         RemoveAttributeIndexes(
             IF key \in DOMAIN attrs
             THEN remove_from_metadata_index(idx, key, attrs[key], token_id)
             ELSE idx,
             attrs, token_id, i + 1)

\* for key in attrs.keys(): add_to_metadata_index(key, attrs[key])
RECURSIVE AddAttributeIndexes(_, _, _, _)
AddAttributeIndexes(idx, attrs, token_id, i) ==
    IF i > Len(KeyOrder) THEN idx
    ELSE LET key == KeyOrder[i] IN
         AddAttributeIndexes(
             IF key \in DOMAIN attrs
             THEN add_to_metadata_index(idx, key, attrs[key], token_id)
             ELSE idx,
             attrs, token_id, i + 1)

\* ------------------------------------------------------------------------
\* Metadata store and history log
\* ------------------------------------------------------------------------
TokenMetadata(description, attributes, version, last_updated, updated_by) ==
    [description |-> description, attributes |-> attributes, version |-> version,
     last_updated |-> last_updated, updated_by |-> updated_by]

\* Mutant: the history entry does not carry the version it produced.
MetadataUpdate_version_zero(version, timestamp, updated_by, description, changes) ==
    [version |-> 0, timestamp |-> timestamp, updated_by |-> updated_by,
     description |-> description, changes |-> changes]

MetadataUpdate(version, timestamp, updated_by, description, changes) ==
    [version |-> version, timestamp |-> timestamp, updated_by |-> updated_by,
     description |-> description, changes |-> changes]

\* Mutant: the history vector is started afresh at every append.
History_fresh(h, id) == <<>>

History(h, id) == IF id \in DOMAIN h THEN h[id] ELSE <<>>

\* The version cut-off of the model: a token at MaxVersion takes no further
\* metadata call.
BelowMaxVersion(id) == id \in DOMAIN metadata => metadata[id].version < MaxVersion

\* The authorization block of set_token_metadata.
set_token_metadata_authorized(id, auth) ==
    IF sequence > 0
    THEN LET is_admin == admin = tokens[id].user
             is_owner == tokens[id].user = tokens[id].user
         IN  IF ~is_admin /\ ~is_owner
             THEN admin \in auth
             ELSE tokens[id].user \in auth
    ELSE TRUE

\* Mutant: a full replace starts the version over.
set_token_metadata_version_reset(id) == 1

set_token_metadata_version(id) ==
    IF id \in DOMAIN metadata THEN metadata[id].version + 1 ELSE 1

set_token_metadata_result(id, description, attributes, auth) ==
    IF id \notin DOMAIN tokens THEN "TokenNotFound"
    ELSE IF admin = NoAdmin THEN "AdminNotSet"
    ELSE IF ~set_token_metadata_authorized(id, auth) THEN "Unauthorized"
    ELSE IF ~validate_metadata(TokenMetadata(description, attributes,
                set_token_metadata_version(id), now, tokens[id].user))
         THEN "MetadataValidationFailed"
    ELSE "Ok"

set_token_metadata(id, description, attributes, auth) ==
    LET result == set_token_metadata_result(id, description, attributes, auth) IN
    /\ BelowMaxVersion(id)
    /\ IF result = "Ok"
       THEN LET caller == tokens[id].user
                version == set_token_metadata_version(id)
                removed == IF id \in DOMAIN metadata
                           THEN RemoveAttributeIndexes(index, metadata[id].attributes, id, 1)
                           ELSE index
            IN  /\ index' = AddAttributeIndexes(removed, attributes, id, 1)
                /\ metadata' = (id :> TokenMetadata(description, attributes, version, now, caller))
                                  @@ metadata
                /\ history' = (id :> Append(History(history, id),
                                  MetadataUpdate(version, now, caller, description, attributes)))
                                  @@ history
       ELSE UNCHANGED <<index, metadata, history>>
    /\ last' = Call("set_token_metadata", result, <<>>)
    /\ UNCHANGED <<admin, tokens, ledger>>

get_token_metadata_result(id) ==
    IF id \notin DOMAIN tokens THEN "TokenNotFound"
    ELSE IF id \notin DOMAIN metadata THEN "MetadataNotFound"
    ELSE "Ok"

get_token_metadata(id) ==
    LET result == get_token_metadata_result(id) IN
    /\ last' = Call("get_token_metadata", result,
                    IF result = "Ok" THEN <<metadata[id]>> ELSE <<>>)
    /\ UNCHANGED <<storage, ledger>>

\* Mutant: the update replaces the attribute map by the update map and leaves
\* the old index entries in place.
ApplyUpdates_replace(idx, attrs, updates, token_id, i) ==
    [ok |-> \A k \in DOMAIN updates : validate_attribute(k, updates[k]),
     index |-> AddAttributeIndexes(idx, updates, token_id, 1),
     attributes |-> updates]

\* The loop of update_token_metadata from position i of the key order on:
\* ok is FALSE when validate_attribute rejected an attribute, and index and
\* attributes are what the loop had written up to that point.
RECURSIVE ApplyUpdates(_, _, _, _, _)
ApplyUpdates(idx, attrs, updates, token_id, i) ==
    IF i > Len(KeyOrder) THEN [ok |-> TRUE, index |-> idx, attributes |-> attrs]
    ELSE LET key == KeyOrder[i] IN
         IF key \notin DOMAIN updates
         THEN ApplyUpdates(idx, attrs, updates, token_id, i + 1)
         ELSE LET new_value == updates[key] IN
              IF ~validate_attribute(key, new_value)
              THEN [ok |-> FALSE, index |-> idx, attributes |-> attrs]
              ELSE LET removed == IF key \in DOMAIN attrs
                                  THEN remove_from_metadata_index(idx, key, attrs[key], token_id)
                                  ELSE idx
                       added == add_to_metadata_index(removed, key, new_value, token_id)
                   IN  ApplyUpdates(added, (key :> new_value) @@ attrs,
                                    updates, token_id, i + 1)

\* Mutant: the owner's authorization is checked before the metadata lookup.
update_token_metadata_result_auth_first(id, updates, auth) ==
    IF id \notin DOMAIN tokens THEN "TokenNotFound"
    ELSE IF tokens[id].user \notin auth THEN "Unauthorized"
    ELSE IF id \notin DOMAIN metadata THEN "MetadataNotFound"
    ELSE LET applied == ApplyUpdates(index, metadata[id].attributes, updates, id, 1) IN
         IF ~applied.ok THEN "MetadataValidationFailed"
         ELSE IF ~validate_metadata([metadata[id] EXCEPT !.attributes = applied.attributes])
              THEN "MetadataValidationFailed"
         ELSE "Ok"

update_token_metadata_result(id, updates, auth) ==
    IF id \notin DOMAIN tokens THEN "TokenNotFound"
    ELSE IF id \notin DOMAIN metadata THEN "MetadataNotFound"
    ELSE IF tokens[id].user \notin auth THEN "Unauthorized"
    ELSE LET applied == ApplyUpdates(index, metadata[id].attributes, updates, id, 1) IN
         IF ~applied.ok THEN "MetadataValidationFailed"
         ELSE IF ~validate_metadata([metadata[id] EXCEPT !.attributes = applied.attributes])
              THEN "MetadataValidationFailed"
         ELSE "Ok"

update_token_metadata(id, updates, auth) ==
    LET result == update_token_metadata_result(id, updates, auth) IN
    /\ BelowMaxVersion(id)
    /\ IF result \in {"Ok", "MetadataValidationFailed"}
       THEN LET applied == ApplyUpdates(index, metadata[id].attributes, updates, id, 1) IN
            /\ index' = applied.index
            /\ IF result = "Ok"
               THEN LET version == metadata[id].version + 1
                        updated_by == tokens[id].user
                    IN  /\ metadata' = [metadata EXCEPT ![id] =
                               TokenMetadata(metadata[id].description, applied.attributes,
                                             version, now, updated_by)]
                        /\ history' = (id :> Append(History(history, id),
                               MetadataUpdate(version, now, updated_by,
                                              metadata[id].description, updates)))
                               @@ history
               ELSE UNCHANGED <<metadata, history>>
       ELSE UNCHANGED <<index, metadata, history>>
    /\ last' = Call("update_token_metadata", result, <<>>)
    /\ UNCHANGED <<admin, tokens, ledger>>

get_metadata_history(id) ==
    /\ last' = Call("get_metadata_history", "Ok", <<History(history, id)>>)
    /\ UNCHANGED <<storage, ledger>>

\* Mutant: the removal loop drops the attributes and keeps the index entries.
RemoveKeys_no_index(idx, attrs, attribute_keys, token_id, i) ==
    [index |-> idx,
     attributes |-> [k \in DOMAIN attrs \ Range(attribute_keys) |-> attrs[k]]]

\* The loop of remove_metadata_attributes from position i of the vector on.
RECURSIVE RemoveKeys(_, _, _, _, _)
RemoveKeys(idx, attrs, attribute_keys, token_id, i) ==
    IF i > Len(attribute_keys) THEN [index |-> idx, attributes |-> attrs]
    ELSE LET key == attribute_keys[i] IN
         RemoveKeys(IF key \in DOMAIN attrs
                    THEN remove_from_metadata_index(idx, key, attrs[key], token_id)
                    ELSE idx,
                    [k \in DOMAIN attrs \ {key} |-> attrs[k]],
                    attribute_keys, token_id, i + 1)

remove_metadata_attributes_result(id, auth) ==
    IF id \notin DOMAIN tokens THEN "TokenNotFound"
    ELSE IF id \notin DOMAIN metadata THEN "MetadataNotFound"
    ELSE IF tokens[id].user \notin auth THEN "Unauthorized"
    ELSE "Ok"

\* Mutant: a removal that finds none of the listed keys keeps the version.
remove_metadata_attributes_skip_noop(id, attribute_keys, auth) ==
    LET result == remove_metadata_attributes_result(id, auth) IN
    /\ BelowMaxVersion(id)
    /\ IF result = "Ok"
       THEN LET removed == RemoveKeys(index, metadata[id].attributes, attribute_keys, id, 1)
                bump == IF removed.attributes = metadata[id].attributes THEN 0 ELSE 1
            IN  /\ index' = removed.index
                /\ metadata' = [metadata EXCEPT ![id] =
                       TokenMetadata(metadata[id].description, removed.attributes,
                                     metadata[id].version + bump, now, tokens[id].user)]
       ELSE UNCHANGED <<index, metadata>>
    /\ last' = Call("remove_metadata_attributes", result, <<>>)
    /\ UNCHANGED <<admin, tokens, history, ledger>>

remove_metadata_attributes(id, attribute_keys, auth) ==
    LET result == remove_metadata_attributes_result(id, auth) IN
    /\ BelowMaxVersion(id)
    /\ IF result = "Ok"
       THEN LET removed == RemoveKeys(index, metadata[id].attributes, attribute_keys, id, 1) IN
            /\ index' = removed.index
            /\ metadata' = [metadata EXCEPT ![id] =
                   TokenMetadata(metadata[id].description, removed.attributes,
                                 metadata[id].version + 1, now, tokens[id].user)]
       ELSE UNCHANGED <<index, metadata>>
    /\ last' = Call("remove_metadata_attributes", result, <<>>)
    /\ UNCHANGED <<admin, tokens, history, ledger>>

query_tokens_by_attribute(attribute_key, attribute_value) ==
    /\ last' = Call("query_tokens_by_attribute", "Ok",
                    <<query_tokens_by_attribute_ret(attribute_key, attribute_value)>>)
    /\ UNCHANGED <<storage, ledger>>

\* ------------------------------------------------------------------------
\* Ledger
\* ------------------------------------------------------------------------
\* One ledger closes between two calls: the sequence number and the
\* timestamp both move on.
AdvanceLedger ==
    /\ last = Idle
    /\ now < MaxTime
    /\ now' = now + 1
    /\ sequence' = sequence + 1
    /\ UNCHANGED <<storage, last>>

\* The call returns: its result has been seen and the next call can be made.
Return ==
    /\ last # Idle
    /\ last' = Idle
    /\ UNCHANGED <<storage, ledger>>

\* ------------------------------------------------------------------------
\* Spec: the record store and the authorization checks.  One token id, every
\* principal as admin, owner and caller, every expiry date, the ledger moving
\* through its whole range; the metadata calls take one valid and one invalid
\* attribute map, and the removal takes the empty key vector, an absent key
\* and a present one.
\* ------------------------------------------------------------------------
TokenIds == {"T1"}
AuthSets == {{}, {"alice"}, {"bob"}}
ExpiryDates == 0..(MaxTime + 1)
AttributeMaps == {"tier" :> "gold", "tier" :> "tooLong"}
KeyVectors == {<<>>, <<"level">>, <<"tier">>}

Next ==
    \/ last = Idle /\ \E id \in TokenIds, user \in Addresses, expiry_date \in ExpiryDates, auth \in AuthSets :
          issue_token(id, user, expiry_date, auth)
    \/ last = Idle /\ \E id \in TokenIds, new_user \in Addresses, auth \in AuthSets :
          transfer_token(id, new_user, auth)
    \/ last = Idle /\ \E id \in TokenIds : get_token(id)
    \/ last = Idle /\ \E new_admin \in Addresses, auth \in AuthSets : set_admin(new_admin, auth)
    \/ last = Idle /\ \E id \in TokenIds, description \in Descriptions, attributes \in AttributeMaps, auth \in AuthSets :
          set_token_metadata(id, description, attributes, auth)
    \/ last = Idle /\ \E id \in TokenIds : get_token_metadata(id)
    \/ last = Idle /\ \E id \in TokenIds, updates \in AttributeMaps, auth \in AuthSets :
          update_token_metadata(id, updates, auth)
    \/ last = Idle /\ \E id \in TokenIds : get_metadata_history(id)
    \/ last = Idle /\ \E id \in TokenIds, attribute_keys \in KeyVectors, auth \in AuthSets :
          remove_metadata_attributes(id, attribute_keys, auth)
    \/ last = Idle /\ \E attribute_key \in {"tier"}, attribute_value \in {"gold"} :
          query_tokens_by_attribute(attribute_key, attribute_value)
    \/ AdvanceLedger
    \/ Return

Spec == Init /\ [][Next]_vars

\* ------------------------------------------------------------------------
\* SpecIndex: two token ids sharing index buckets, one principal that is
\* admin and owner, the ledger at rest.  T1 takes the full range of attribute
\* inputs; T2 is the other token of the buckets and takes one input per call.
\* ------------------------------------------------------------------------
IndexTokenIds == {"T1", "T2"}
IndexAuthSets == {{"alice"}}
IndexSetMaps(id) ==
    IF id = "T1"
    THEN {<<>>, "tier" :> "gold", "tier" :> "silver",
          ("level" :> "gold") @@ ("tier" :> "gold"),
          ("level" :> "gold") @@ ("tier" :> "tooLong")}
    ELSE {"tier" :> "gold", ("level" :> "gold") @@ ("tier" :> "gold")}
IndexUpdateMaps(id) ==
    IF id = "T1"
    THEN {"tier" :> "silver", "level" :> "silver", "rank" :> "gold",
          ("level" :> "silver") @@ ("tier" :> "silver"),
          ("level" :> "silver") @@ ("tier" :> "tooLong")}
    ELSE {"tier" :> "silver"}
IndexKeyVectors(id) ==
    IF id = "T1"
    THEN {<<>>, <<"tier">>, <<"rank", "level">>, <<"tier", "tier">>}
    ELSE {<<"tier">>}
IndexQueries == {<<"tier", "gold">>, <<"tier", "silver">>, <<"level", "silver">>}

NextIndex ==
    \/ last = Idle /\ \E id \in IndexTokenIds, auth \in IndexAuthSets :
          issue_token(id, "alice", MaxTime + 1, auth)
    \/ last = Idle /\ \E id \in IndexTokenIds, auth \in IndexAuthSets :
          transfer_token(id, "alice", auth)
    \/ last = Idle /\ \E id \in IndexTokenIds : get_token(id)
    \/ last = Idle /\ \E auth \in IndexAuthSets : set_admin("alice", auth)
    \/ last = Idle /\ \E id \in IndexTokenIds, auth \in IndexAuthSets :
          \E attributes \in IndexSetMaps(id) : set_token_metadata(id, "desc", attributes, auth)
    \/ last = Idle /\ \E id \in IndexTokenIds : get_token_metadata(id)
    \/ last = Idle /\ \E id \in IndexTokenIds, auth \in IndexAuthSets :
          \E updates \in IndexUpdateMaps(id) : update_token_metadata(id, updates, auth)
    \/ last = Idle /\ \E id \in IndexTokenIds : get_metadata_history(id)
    \/ last = Idle /\ \E id \in IndexTokenIds, auth \in IndexAuthSets :
          \E attribute_keys \in IndexKeyVectors(id) :
              remove_metadata_attributes(id, attribute_keys, auth)
    \/ last = Idle /\ \E q \in IndexQueries : query_tokens_by_attribute(q[1], q[2])
    \/ Return

SpecIndex == Init /\ [][NextIndex]_vars

\* ------------------------------------------------------------------------
\* Properties
\* ------------------------------------------------------------------------
MetadataMutators == {"set_token_metadata", "update_token_metadata", "remove_metadata_attributes"}
Mutators == MetadataMutators \cup {"issue_token", "transfer_token"}

\* Some token's stored attributes map key to value.
HeldBySomeToken(key, value) ==
    \E id \in DOMAIN metadata :
        key \in DOMAIN metadata[id].attributes /\ metadata[id].attributes[key] = value

\* C1 (index completeness): for every token with stored metadata and every
\* pair (k, v) of its stored attributes, query_tokens_by_attribute(k, v)
\* contains the token's id, whatever calls were made and however they ended.
C1_IndexComplete ==
    \A id \in DOMAIN metadata :
        \A k \in DOMAIN metadata[id].attributes :
            id \in Range(query_tokens_by_attribute_ret(k, metadata[id].attributes[k]))

\* C2 (index soundness): every id stored in bucket (k, v) belongs to a token
\* whose stored attributes map k to v, and a pair (k, v) held by no token has
\* no bucket, so that query_tokens_by_attribute(k, v) is empty.
C2_IndexSound ==
    /\ \A p \in DOMAIN index :
           \A id \in Range(index[p]) :
               /\ id \in DOMAIN metadata
               /\ p[1] \in DOMAIN metadata[id].attributes
               /\ metadata[id].attributes[p[1]] = p[2]
    /\ \A k \in Keys, v \in Values :
           ~HeldBySomeToken(k, v) =>
               /\ <<k, v>> \notin DOMAIN index
               /\ query_tokens_by_attribute_ret(k, v) = <<>>

\* C4 (validate before write): a call of issue_token, transfer_token,
\* set_token_metadata, update_token_metadata or remove_metadata_attributes
\* that returns an error leaves tokens, metadata, index buckets and history
\* exactly as they were.
C4_FailedCallWritesNothing ==
    [][(last'.op \in Mutators /\ last'.result # "Ok")
           => UNCHANGED <<tokens, metadata, index, history>>]_vars

\* A metadata mutator has just succeeded on token id (under SpecIndex).
IndexMutationSucceeded(id) ==
    /\ last'.op \in MetadataMutators
    /\ last'.result = "Ok"
    /\ \E auth \in IndexAuthSets :
           \/ \E a \in IndexSetMaps(id) : set_token_metadata(id, "desc", a, auth)
           \/ \E u \in IndexUpdateMaps(id) : update_token_metadata(id, u, auth)
           \/ \E ks \in IndexKeyVectors(id) : remove_metadata_attributes(id, ks, auth)

\* C3 (versions): the first successful set_token_metadata stores version 1,
\* every later successful set_token_metadata, update_token_metadata or
\* remove_metadata_attributes on the token raises the stored version by
\* exactly 1, and no step removes the metadata or lowers its version.
C3_VersionStepsByOne ==
    [][/\ \A id \in IndexTokenIds :
              LET had == id \in DOMAIN metadata
                  old == IF had THEN metadata[id].version ELSE 0
              IN  /\ had => id \in DOMAIN metadata' /\ metadata'[id].version >= old
                  /\ IndexMutationSucceeded(id) =>
                         id \in DOMAIN metadata' /\ metadata'[id].version = old + 1
                  /\ (~had /\ id \in DOMAIN metadata') =>
                         /\ last'.op = "set_token_metadata"
                         /\ metadata'[id].version = 1
       /\ (last'.op \in MetadataMutators /\ last'.result = "Ok") =>
              \E id \in IndexTokenIds : IndexMutationSucceeded(id)
      ]_vars

\* C3 witness: an update went through on metadata that a set had created.
C3_Witness ==
    /\ last.op = "update_token_metadata" /\ last.result = "Ok"
    /\ "T1" \in DOMAIN metadata /\ metadata["T1"].version = 2
    /\ Len(History(history, "T1")) = 2 /\ history["T1"][1].version = 1

\* C5 (authorization of set_token_metadata): the call succeeds only when the
\* admin or the token's owner authorized it, at every ledger sequence number;
\* on an existing token, with an admin set, a call authorized by neither
\* aborts as unauthorized and leaves metadata, index and history untouched.
C5_SetMetadataNeedsAdminOrOwner ==
    [][\A id \in TokenIds, d \in Descriptions, a \in AttributeMaps, auth \in AuthSets :
          (/\ last'.op = "set_token_metadata"
           /\ id \in DOMAIN tokens
           /\ admin # NoAdmin
           /\ set_token_metadata(id, d, a, auth)) =>
              /\ last'.result = "Ok" => (admin \in auth \/ tokens[id].user \in auth)
              /\ (admin \notin auth /\ tokens[id].user \notin auth) =>
                     /\ last'.result = "Unauthorized"
                     /\ UNCHANGED <<metadata, index, history>>
      ]_vars

\* C6 (admin-or-owner): with the admin a different principal from the owner,
\* set_token_metadata on an existing token with valid metadata, authorized by
\* the admin alone, succeeds.
C6_AdminAloneMaySetMetadata ==
    [][\A id \in TokenIds, d \in Descriptions, a \in AttributeMaps :
          (/\ last'.op = "set_token_metadata"
           /\ id \in DOMAIN tokens
           /\ admin # NoAdmin
           /\ admin # tokens[id].user
           /\ validate_metadata(TokenMetadata(d, a, set_token_metadata_version(id),
                                              now, tokens[id].user))
           /\ set_token_metadata(id, d, a, {admin}))
              => last'.result = "Ok"
      ]_vars

\* C7 (issued once): with an admin set and authorizing the call, issue_token
\* with expiry_date > now on an id that is not stored succeeds and stores an
\* Active token with issue_date = now and the given owner and expiry; on an
\* id that is stored it fails with TokenAlreadyIssued and leaves the stored
\* token unchanged.  issue_token succeeds only on an id that is not stored,
\* and a stored token is never removed, so an id is issued at most once.
C7_IssuedOnce ==
    [][\A id \in TokenIds :
          /\ \A user \in Addresses, expiry_date \in ExpiryDates, auth \in AuthSets :
                 (last'.op = "issue_token" /\ issue_token(id, user, expiry_date, auth)) =>
                     /\ last'.result = "Ok" => id \notin DOMAIN tokens
                     /\ (admin # NoAdmin /\ admin \in auth) =>
                            IF id \in DOMAIN tokens
                            THEN last'.result = "TokenAlreadyIssued" /\ tokens' = tokens
                            ELSE expiry_date > now =>
                                     /\ last'.result = "Ok"
                                     /\ DOMAIN tokens' = DOMAIN tokens \cup {id}
                                     /\ tokens'[id] = [id |-> id, user |-> user,
                                                       status |-> "Active", issue_date |-> now,
                                                       expiry_date |-> expiry_date]
          /\ id \in DOMAIN tokens => id \in DOMAIN tokens'
      ]_vars

\* C7 witness: a second issue_token on a stored id was turned down.
C7_Witness ==
    /\ last.op = "issue_token" /\ last.result = "TokenAlreadyIssued"
    /\ "T1" \in DOMAIN tokens /\ tokens["T1"].status = "Active"

\* C8 as stated, for a call that passes the admin check: issue_token with
\* expiry_date <= now always fails with InvalidExpiryDate and leaves no token
\* stored under that id.
C8_Original ==
    [][\A id \in TokenIds, user \in Addresses, expiry_date \in ExpiryDates, auth \in AuthSets :
          (/\ last'.op = "issue_token"
           /\ expiry_date <= now
           /\ admin # NoAdmin /\ admin \in auth
           /\ issue_token(id, user, expiry_date, auth))
              => last'.result = "InvalidExpiryDate" /\ id \notin DOMAIN tokens'
      ]_vars

\* C8 amended: issue_token with expiry_date <= now always fails and leaves
\* the stored tokens as they were; with an admin set and authorizing the call
\* it fails with InvalidExpiryDate and leaves no token under the id when the
\* id is not stored yet, and with TokenAlreadyIssued when it is.
C8_ExpiryNotInFuture ==
    [][\A id \in TokenIds, user \in Addresses, expiry_date \in ExpiryDates, auth \in AuthSets :
          (/\ last'.op = "issue_token"
           /\ expiry_date <= now
           /\ issue_token(id, user, expiry_date, auth)) =>
              /\ last'.result # "Ok"
              /\ tokens' = tokens
              /\ (admin # NoAdmin /\ admin \in auth) =>
                     IF id \in DOMAIN tokens
                     THEN last'.result = "TokenAlreadyIssued"
                     ELSE last'.result = "InvalidExpiryDate" /\ id \notin DOMAIN tokens'
      ]_vars

\* C8 witness: an issue_token was refused for its expiry date after the
\* ledger had moved on, and the id is still free.
C8_Witness ==
    /\ last.op = "issue_token" /\ last.result = "InvalidExpiryDate"
    /\ now > 0
    /\ "T1" \notin DOMAIN tokens

\* C9 (transfer): a transfer_token that succeeds was authorized by the owner
\* and stores the new owner; a transfer_token of a stored token that the
\* current owner did not authorize fails as unauthorized and leaves the owner
\* unchanged.
C9_TransferByOwnerOnly ==
    [][\A id \in TokenIds, new_user \in Addresses, auth \in AuthSets :
          (/\ last'.op = "transfer_token"
           /\ id \in DOMAIN tokens
           /\ transfer_token(id, new_user, auth)) =>
              IF tokens[id].user \in auth
              THEN /\ last'.result = "Ok"
                   /\ tokens'[id] = [tokens[id] EXCEPT !.user = new_user]
              ELSE /\ last'.result = "Unauthorized"
                   /\ tokens' = tokens
      ]_vars

\* C9 witness: alice owned the token when its metadata was written, bob owns
\* it now, and a transfer that he did not authorize has just failed.
C9_Witness ==
    /\ last.op = "transfer_token" /\ last.result = "Unauthorized"
    /\ "T1" \in DOMAIN metadata /\ metadata["T1"].updated_by = "alice"
    /\ tokens["T1"].user = "bob"

\* C10 (expiry at read time): get_token on a stored Active token fails with
\* TokenExpired and returns nothing when now > expiry_date, returns the
\* stored token when now <= expiry_date, and leaves the stored token as it
\* was in both cases.
C10_GetTokenExpiry ==
    [][\A id \in TokenIds :
          (/\ last'.op = "get_token"
           /\ id \in DOMAIN tokens
           /\ tokens[id].status = "Active"
           /\ get_token(id)) =>
              /\ IF now > tokens[id].expiry_date
                 THEN last'.result = "TokenExpired" /\ last'.ret = <<>>
                 ELSE last'.result = "Ok" /\ last'.ret = <<tokens[id]>>
              /\ tokens' = tokens
      ]_vars

\* C10 witness: get_token has just failed on a token that is stored as
\* Active and is past its expiry date.
C10_Witness ==
    /\ last.op = "get_token" /\ last.result = "TokenExpired"
    /\ "T1" \in DOMAIN tokens /\ tokens["T1"].status = "Active"
    /\ now > tokens["T1"].expiry_date

\* A set_token_metadata(id, "desc", a) has just succeeded (under SpecIndex).
SetSucceeded(id, a) ==
    /\ last'.op = "set_token_metadata"
    /\ last'.result = "Ok"
    /\ \E auth \in IndexAuthSets : set_token_metadata(id, "desc", a, auth)

\* C11 (full replace): a successful set_token_metadata(id, d, A) stores
\* attributes exactly A, with version 1 on a token without metadata and the
\* old version plus 1 otherwise; every pair of the old attributes that is not
\* in A no longer lists id in its bucket and every pair of A does; and
\* get_token_metadata returns the stored metadata.
C11_FullReplace ==
    [][\A id \in IndexTokenIds :
          /\ \A a \in IndexSetMaps(id) :
                 SetSucceeded(id, a) =>
                     LET had == id \in DOMAIN metadata
                         old == IF had THEN metadata[id].attributes ELSE <<>>
                     IN  /\ metadata'[id].attributes = a
                         /\ metadata'[id].version = IF had THEN metadata[id].version + 1 ELSE 1
                         /\ \A k \in DOMAIN old :
                                (k \notin DOMAIN a \/ a[k] # old[k]) =>
                                    id \notin Range(Bucket(index', k, old[k]))
                         /\ \A k \in DOMAIN a : id \in Range(Bucket(index', k, a[k]))
          /\ (/\ last'.op = "get_token_metadata"
              /\ id \in DOMAIN metadata
              /\ get_token_metadata(id)) =>
                 last'.result = "Ok" /\ last'.ret = <<metadata[id]>>
      ]_vars

\* C11 witness: get_token_metadata returns version 2 and the attributes of a
\* second set_token_metadata that dropped a pair of the first one.
C11_Witness ==
    /\ last.op = "get_token_metadata" /\ last.result = "Ok"
    /\ last.ret[1].version = 2 /\ last.ret[1].attributes = ("tier" :> "silver")
    /\ Len(History(history, "T1")) = 2
    /\ history["T1"][1].changes = (("level" :> "gold") @@ ("tier" :> "gold"))
    /\ history["T1"][2].changes = ("tier" :> "silver")
    /\ "T1" \notin Range(Bucket(index, "level", "gold"))
    /\ "T1" \in Range(Bucket(index, "tier", "silver"))

\* A remove_metadata_attributes(id, ks) has just succeeded (under SpecIndex).
RemoveSucceeded(id, ks) ==
    /\ last'.op = "remove_metadata_attributes"
    /\ last'.result = "Ok"
    /\ \E auth \in IndexAuthSets : remove_metadata_attributes(id, ks, auth)

\* C12 (attribute removal): remove_metadata_attributes(id, keys) on a token
\* with metadata, authorized by the owner, succeeds whether or not the listed
\* keys are present; it removes exactly the listed keys that are present from
\* the attribute map and removes id (and no other id) from the bucket of the
\* value each of them held; for a listed key that is not present, and for
\* every key that is not listed, every index bucket is left unchanged.
C12_RemoveAttributes ==
    [][\A id \in IndexTokenIds : \A ks \in IndexKeyVectors(id), auth \in IndexAuthSets :
          (/\ last'.op = "remove_metadata_attributes"
           /\ id \in DOMAIN tokens /\ id \in DOMAIN metadata
           /\ remove_metadata_attributes(id, ks, auth)) =>
              LET attrs == metadata[id].attributes
                  attrs2 == metadata'[id].attributes
              IN  /\ last'.result = "Ok"
                  /\ DOMAIN attrs2 = DOMAIN attrs \ Range(ks)
                  /\ \A k \in DOMAIN attrs2 : attrs2[k] = attrs[k]
                  /\ \A k \in Keys, v \in Values :
                         Bucket(index', k, v) =
                             IF k \in Range(ks) /\ k \in DOMAIN attrs /\ attrs[k] = v
                             THEN SelectSeq(Bucket(index, k, v), LAMBDA t : t # id)
                             ELSE Bucket(index, k, v)
                  /\ \A k \in Range(ks) \cap DOMAIN attrs :
                         id \notin Range(Bucket(index', k, attrs[k]))
      ]_vars

\* C12 witness: remove_metadata_attributes(T1, <<rank, level>>) went through
\* on attributes {level, tier}: level was removed, rank was not present.
C12_Witness ==
    /\ last.op = "remove_metadata_attributes" /\ last.result = "Ok"
    /\ "T1" \in DOMAIN metadata
    /\ metadata["T1"].version = 2
    /\ metadata["T1"].attributes = ("tier" :> "gold")
    /\ history["T1"][1].changes = (("level" :> "gold") @@ ("tier" :> "gold"))
    /\ "T1" \notin Range(Bucket(index, "level", "gold"))
    /\ "T1" \in Range(Bucket(index, "tier", "gold"))

\* The history stored for token id, empty when nothing is stored.
Log(id) == IF id \in DOMAIN history THEN history[id] ELSE <<>>

\* A set_token_metadata or update_token_metadata has just succeeded on token
\* id (under SpecIndex).
SetOrUpdateSucceeded(id) ==
    /\ last'.op \in {"set_token_metadata", "update_token_metadata"}
    /\ last'.result = "Ok"
    /\ \E auth \in IndexAuthSets :
           \/ \E a \in IndexSetMaps(id) : set_token_metadata(id, "desc", a, auth)
           \/ \E u \in IndexUpdateMaps(id) : update_token_metadata(id, u, auth)

\* C13 as stated: the number of history entries of a token equals its current
\* metadata version, and is 0 when it has no metadata.
C13_Original ==
    \A id \in IndexTokenIds :
        Len(Log(id)) =
            IF id \in DOMAIN metadata THEN metadata[id].version ELSE 0

\* C13 amended: the history log holds one entry per successful
\* set_token_metadata and update_token_metadata: each of them appends exactly
\* one entry to the token's history, no other step (a successful
\* remove_metadata_attributes included) changes its length, and the number of
\* entries never exceeds the token's metadata version and is 0 when it has no
\* metadata.
C13_HistoryCountsSetsAndUpdates ==
    [][\A id \in IndexTokenIds :
          /\ Len(Log(id)') =
                 IF SetOrUpdateSucceeded(id)
                 THEN Len(Log(id)) + 1
                 ELSE Len(Log(id))
          /\ Len(Log(id)') <=
                 IF id \in DOMAIN metadata' THEN metadata'[id].version ELSE 0
      ]_vars

\* C13 witness: get_metadata_history returns one entry for a token whose
\* metadata is at version 2, after a set and a remove.
C13_Witness ==
    /\ last.op = "get_metadata_history"
    /\ Len(last.ret[1]) = 1
    /\ last.ret[1] = Log("T1")
    /\ "T1" \in DOMAIN metadata /\ metadata["T1"].version = 2

\* Sequence s is a prefix of sequence t.
IsPrefix(s, t) == Len(s) <= Len(t) /\ \A i \in 1..Len(s) : t[i] = s[i]

\* C14 (append-only history): on every step and for every token, the history
\* stored before the step is a prefix of the history stored after it, and a
\* successful set_token_metadata or update_token_metadata appends exactly one
\* entry, whose version is the metadata version the call stored.
C14_HistoryAppendOnly ==
    [][\A id \in IndexTokenIds :
          /\ IsPrefix(Log(id), Log(id)')
          /\ SetOrUpdateSucceeded(id) =>
                 /\ Len(Log(id)') = Len(Log(id)) + 1
                 /\ Log(id)'[Len(Log(id)')].version = metadata'[id].version
      ]_vars

\* C14 witness: a second set_token_metadata on T2 appended the entry of
\* version 2 behind the entry of version 1.
C14_Witness ==
    /\ last.op = "set_token_metadata" /\ last.result = "Ok"
    /\ Len(Log("T2")) = 2
    /\ Log("T2")[1].version = 1 /\ Log("T2")[2].version = 2
    /\ metadata["T2"].version = 2

\* C15 (update needs metadata): update_token_metadata on a stored token that
\* has no metadata fails with MetadataNotFound for every update map and every
\* set of authorizers, and leaves metadata, index and history as they were.
C15_UpdateNeedsMetadata ==
    [][\A id \in TokenIds, updates \in AttributeMaps, auth \in AuthSets :
          (/\ last'.op = "update_token_metadata"
           /\ id \in DOMAIN tokens
           /\ id \notin DOMAIN metadata
           /\ update_token_metadata(id, updates, auth)) =>
              /\ last'.result = "MetadataNotFound"
              /\ UNCHANGED <<metadata, index, history>>
      ]_vars

\* C15 witness: update_token_metadata was refused on the stored token T1,
\* which has no metadata, no history and no index bucket.
C15_Witness ==
    /\ last.op = "update_token_metadata" /\ last.result = "MetadataNotFound"
    /\ "T1" \in DOMAIN tokens
    /\ metadata = <<>> /\ history = <<>> /\ index = <<>>

\* The admin slot on one step, with no_admin_error the error issue_token is
\* said to return while the slot is empty: set_admin(X) succeeds exactly when
\* X authorized it and then stores X whatever the slot held; only set_admin
\* writes the slot and the slot is never emptied; issue_token succeeds only
\* with the authorization of the admin in the slot, fails as unauthorized and
\* stores nothing when an admin is set and did not authorize it, and fails
\* with no_admin_error and stores nothing while the slot is empty.
AdminSlotStep(no_admin_error) ==
    /\ \A new_admin \in Addresses, auth \in AuthSets :
           (last'.op = "set_admin" /\ set_admin(new_admin, auth)) =>
               IF new_admin \in auth
               THEN last'.result = "Ok" /\ admin' = new_admin
               ELSE last'.result = "Unauthorized" /\ admin' = admin
    /\ last'.op # "set_admin" => admin' = admin
    /\ admin # NoAdmin => admin' # NoAdmin
    /\ \A id \in TokenIds, user \in Addresses, expiry_date \in ExpiryDates, auth \in AuthSets :
           (last'.op = "issue_token" /\ issue_token(id, user, expiry_date, auth)) =>
               /\ last'.result = "Ok" => (admin # NoAdmin /\ admin \in auth)
               /\ (admin # NoAdmin /\ admin \notin auth) =>
                      last'.result = "Unauthorized" /\ tokens' = tokens
               /\ admin = NoAdmin =>
                      last'.result = no_admin_error /\ tokens' = tokens

C17_TransferAfterExpiry ==
    [][\A id \in TokenIds, new_user \in Addresses, auth \in AuthSets :
          (/\ last'.op = "transfer_token"
           /\ id \in DOMAIN tokens
           /\ now > tokens[id].expiry_date
           /\ tokens[id].user \in auth
           /\ transfer_token(id, new_user, auth)) =>
              /\ last'.result = "Ok"
              /\ tokens'[id].user = new_user
              /\ get_token_result(id) = "TokenExpired"
              /\ get_token_result(id)' = "TokenExpired"
      ]_vars

\* C17 witness: past the expiry date of T1, alice wrote its metadata as its
\* owner and a transfer_token then made bob the owner.
C17_Witness ==
    /\ last.op = "transfer_token" /\ last.result = "Ok"
    /\ now > tokens["T1"].expiry_date
    /\ "T1" \in DOMAIN metadata
    /\ metadata["T1"].updated_by = "alice" /\ metadata["T1"].last_updated = now
    /\ tokens["T1"].user = "bob"

\* An update_token_metadata(id, u) has just succeeded (under SpecIndex).
UpdateSucceeded(id, u) ==
    /\ last'.op = "update_token_metadata"
    /\ last'.result = "Ok"
    /\ \E auth \in IndexAuthSets : update_token_metadata(id, u, auth)

\* The ids of bucket (key, value) other than id, in their stored order.
OthersInBucket(idx, key, value, id) ==
    SelectSeq(Bucket(idx, key, value), LAMBDA t : t # id)

\* C18 (partial merge): after a successful update_token_metadata(id, U) on
\* attributes A the stored attributes are A overridden by U and the
\* description is unchanged; for every key of U whose old value differs from
\* the new one, id has left the bucket of the old pair, and id is in the
\* bucket of every pair of U; the other tokens of every bucket are unaffected;
\* and the appended history entry's changes are U.
C18_PartialMerge ==
    [][\A id \in IndexTokenIds : \A u \in IndexUpdateMaps(id) :
          UpdateSucceeded(id, u) =>
              LET attrs == metadata[id].attributes
                  attrs2 == metadata'[id].attributes
              IN  /\ DOMAIN attrs2 = DOMAIN attrs \cup DOMAIN u
                  /\ \A k \in DOMAIN attrs2 :
                         attrs2[k] = IF k \in DOMAIN u THEN u[k] ELSE attrs[k]
                  /\ metadata'[id].description = metadata[id].description
                  /\ \A k \in DOMAIN u :
                         /\ (k \in DOMAIN attrs /\ attrs[k] # u[k]) =>
                                id \notin Range(Bucket(index', k, attrs[k]))
                         /\ id \in Range(Bucket(index', k, u[k]))
                  /\ \A k \in Keys, v \in Values :
                         OthersInBucket(index', k, v, id) = OthersInBucket(index, k, v, id)
                  /\ Log(id)'[Len(Log(id)')].changes = u
      ]_vars

\* C18 witness: update_token_metadata(T1, {tier: silver}) went through on
\* attributes {level: gold, tier: gold}: level is kept, T1 moved from bucket
\* (tier, gold) to (tier, silver), and T2 is still listed in (tier, gold).
C18_Witness ==
    /\ last.op = "update_token_metadata" /\ last.result = "Ok"
    /\ "T1" \in DOMAIN metadata
    /\ metadata["T1"].attributes = (("level" :> "gold") @@ ("tier" :> "silver"))
    /\ Log("T1")[1].changes = (("level" :> "gold") @@ ("tier" :> "gold"))
    /\ Log("T1")[2].changes = ("tier" :> "silver")
    /\ Bucket(index, "tier", "gold") = <<"T2">>
    /\ Bucket(index, "tier", "silver") = <<"T1">>
    /\ "T1" \in Range(Bucket(index, "level", "gold"))

\* C19 (removal bookkeeping): every successful remove_metadata_attributes
\* raises the metadata version by exactly 1 and stores the ledger time as
\* last_updated and the owner as updated_by, also when the key vector is empty
\* or none of its keys was present, and leaves the history as it was, so that
\* the newest history entry's version is below the stored metadata version.
C19_RemoveBumpsVersionOnly ==
    [][\A id \in TokenIds, ks \in KeyVectors, auth \in AuthSets :
          (/\ last'.op = "remove_metadata_attributes"
           /\ last'.result = "Ok"
           /\ remove_metadata_attributes(id, ks, auth)) =>
              /\ metadata'[id].version = metadata[id].version + 1
              /\ metadata'[id].last_updated = now
              /\ metadata'[id].updated_by = tokens[id].user
              /\ history' = history
              /\ Len(Log(id)') > 0
              /\ Log(id)'[Len(Log(id)')].version < metadata'[id].version
      ]_vars

\* C19 witness: after alice set the metadata of T1 and bob became its owner,
\* a later remove_metadata_attributes that removed no attribute stored
\* version 2, the new time and bob, and the history still has its one entry.
C19_Witness ==
    /\ last.op = "remove_metadata_attributes" /\ last.result = "Ok"
    /\ "T1" \in DOMAIN metadata
    /\ metadata["T1"].attributes = ("tier" :> "gold")
    /\ metadata["T1"].version = 2
    /\ metadata["T1"].updated_by = "bob"
    /\ metadata["T1"].last_updated = now
    /\ Len(Log("T1")) = 1
    /\ Log("T1")[1].updated_by = "alice" /\ Log("T1")[1].timestamp < now

\* Sequence s lists no element twice.
NoDuplicates(s) == \A i, j \in DOMAIN s : s[i] = s[j] => i = j

\* C20 (buckets): every stored index bucket is a non-empty list without
\* duplicates; on the stored index, adding an id to a bucket that lists it
\* changes nothing, removing an id from a bucket that is absent or does not
\* list it changes nothing, and removing the only id of a bucket deletes the
\* bucket.
C20_BucketsWellFormed ==
    /\ \A p \in DOMAIN index : index[p] # <<>> /\ NoDuplicates(index[p])
    /\ \A k \in Keys, v \in Values, id \in IndexTokenIds :
           /\ id \in Range(Bucket(index, k, v)) =>
                  add_to_metadata_index(index, k, v, id) = index
           /\ id \notin Range(Bucket(index, k, v)) =>
                  remove_from_metadata_index(index, k, v, id) = index
           /\ Bucket(index, k, v) = <<id>> =>
                  <<k, v>> \notin DOMAIN remove_from_metadata_index(index, k, v, id)

\* C20 witness: remove_metadata_attributes took T1, its only id, out of
\* bucket (level, gold), which is gone, while bucket (tier, gold) lists T1
\* and T2 once each.
C20_Witness ==
    /\ last.op = "remove_metadata_attributes" /\ last.result = "Ok"
    /\ "T1" \in DOMAIN metadata
    /\ metadata["T1"].attributes = ("tier" :> "gold")
    /\ Log("T1")[1].changes = (("level" :> "gold") @@ ("tier" :> "gold"))
    /\ <<"level", "gold">> \notin DOMAIN index
    /\ Bucket(index, "tier", "gold") = <<"T1", "T2">>

\* C21 (token record stability): a stored token stays stored, with the same
\* id, issue_date and expiry_date and with stored status Active, and a token
\* enters the store Active; the owner is the only field that changes, only a
\* successful transfer_token changes it, and a successful transfer_token
\* leaves metadata, history and index as they were.
C21_TokenRecordStable ==
    [][\A id \in TokenIds :
          /\ id \in DOMAIN tokens =>
                 /\ id \in DOMAIN tokens'
                 /\ tokens'[id] = [tokens[id] EXCEPT !.user = tokens'[id].user]
                 /\ tokens'[id].status = "Active"
                 /\ tokens'[id].user # tokens[id].user =>
                        last'.op = "transfer_token" /\ last'.result = "Ok"
          /\ (id \notin DOMAIN tokens /\ id \in DOMAIN tokens') =>
                 /\ last'.op = "issue_token" /\ last'.result = "Ok"
                 /\ tokens'[id].id = id /\ tokens'[id].status = "Active"
          /\ (last'.op = "transfer_token" /\ last'.result = "Ok") =>
                 UNCHANGED <<metadata, history, index>>
      ]_vars

\* C21 witness: T1 was issued at time 0, alice wrote its metadata as its
\* owner, and a transfer_token before its expiry date made bob the owner: the
\* token is Active with its issue date, and the metadata, its history entry
\* and its index bucket are those alice wrote.
C21_Witness ==
    /\ last.op = "transfer_token" /\ last.result = "Ok"
    /\ "T1" \in DOMAIN tokens /\ "T1" \in DOMAIN metadata
    /\ tokens["T1"].user = "bob" /\ tokens["T1"].status = "Active"
    /\ tokens["T1"].issue_date = 0 /\ now > 0 /\ now <= tokens["T1"].expiry_date
    /\ metadata["T1"].updated_by = "alice" /\ metadata["T1"].last_updated = now
    /\ Len(Log("T1")) = 1 /\ Log("T1")[1].updated_by = "alice"
    /\ Bucket(index, "tier", "gold") = <<"T1">>

====
